---- MODULE Spec2Model ----
(***************************************************************************)
(* Model of App.js: the cache-readiness gate of the App component          *)
(* (useState / useEffect / persistCache(...).then) and the route registry  *)
(* of the stack navigator it renders once the gate is open.                *)
(*                                                                         *)
(* JavaScript values are records tagged by their type, so that truthiness  *)
(* and template-literal string conversion are computed as the language     *)
(* computes them.                                                          *)
(***************************************************************************)
EXTENDS Integers, Sequences, FiniteSets, TLC

VARIABLES
    loadingCache,   \* the useState flag: TRUE = Pending, FALSE = Ready
    view,           \* the element tree returned by the last call of App()
    effectPending,  \* the useEffect callback is scheduled to run
    lastDeps,       \* dependency list of the effect at the last commit
    promises,       \* promises returned by persistCache, in call order
    reacted,        \* promises whose .then reaction job has run
    setterCalls,    \* number of calls of setLoadingCache
    rerenders,      \* number of re-renders requested by the framework
    routes,         \* route stack of the Stack.Navigator (<<>> = not mounted)
    options         \* options computed for the focused screen

vars == <<loadingCache, view, effectPending, lastDeps, promises, reacted,
          setterCalls, rerenders, routes, options>>

gate == <<loadingCache, view, effectPending, lastDeps>>
nav  == <<routes, options>>

-----------------------------------------------------------------------------
\* Bounds of the model

MaxRerenders == 2
MaxStack == 3
MaxNumber == 3
MaxFirings == 3

-----------------------------------------------------------------------------
\* JavaScript values

JSNull == [t |-> "null"]
JSUndefined == [t |-> "undefined"]
JSNumber(n) == [t |-> "number", n |-> n]
JSString(s) == [t |-> "string", s |-> s]

\* a test for null and undefined only, where ToBoolean was meant
TruthyNonNull(v) == v.t \notin {"null", "undefined"}

\* ToBoolean, as applied by the conditional operator
Truthy(v) ==
    CASE v.t = "null" -> FALSE
      [] v.t = "undefined" -> FALSE
      [] v.t = "number" -> v.n # 0
      [] v.t = "string" -> v.s # ""

\* ToString, as applied by a template literal substitution
JSToString(v) ==
    CASE v.t = "null" -> "null"
      [] v.t = "undefined" -> "undefined"
      [] v.t = "number" -> ToString(v.n)
      [] v.t = "string" -> v.s

\* chapter parameters a Chapter route is activated with
ChapterNumbers ==
    {JSNull, JSUndefined, JSString(""), JSString("A")}
        \cup {JSNumber(n) : n \in 0..MaxNumber}
ChapterTitles == {JSString("Queries"), JSString("Introduction")}
Chapters == [number : ChapterNumbers, title : ChapterTitles]

-----------------------------------------------------------------------------
\* The App component

\* a flag created ready
InitialLoadingCacheReady == FALSE

\* useState(true)
InitialLoadingCache == TRUE

\* a callback that toggles the flag
ToggledLoadingCache(prev) == ~prev

\* the value the completion callback passes to setLoadingCache
CompletedLoadingCache(prev) == FALSE

\* a dependency list that names the flag
EffectDepsOnFlag(lc) == <<lc>>

\* the dependency list of the effect: []
EffectDeps(lc) == <<>>

\* the callback invoked while the argument of .then is evaluated
ThenReactsEagerly(outcome) == TRUE

\* the callback registered with .catch
ThenReactsToRejection(outcome) == outcome = "rejected"

\* .then(onFulfilled): the callback is the reaction to fulfilment only
ThenReacts(outcome) == outcome = "fulfilled"

\* a component without the early return
RenderAppUngated(lc) ==
    [kind |-> "ApolloProvider",
     initialRouteName |-> "Home",
     screens |-> {"Home", "Chapter"},
     statusBar |-> "light"]

\* a component whose early return is always taken
RenderAppStuck(lc) == [kind |-> "AppLoading"]

\* the element tree App() returns for a value of the flag
RenderApp(lc) ==
    IF lc
    THEN [kind |-> "AppLoading"]
    ELSE [kind |-> "ApolloProvider",
          initialRouteName |-> "Home",
          screens |-> {"Home", "Chapter"},
          statusBar |-> "light"]

\* options of the Home screen (the title in the source starts with the
\* book emoji U+1F4D6 and a space, which a TLA+ string cannot hold)
HomeOptions == [title |-> JSString("The GraphQL Guide")]

\* options of the Chapter screen, computed from the route
ChapterOptions(route) ==
    LET number == route.params.chapter.number
        title == route.params.chapter.title
    IN [title |-> IF Truthy(number)
                  THEN JSString("Chapter " \o JSToString(number) \o ": "
                                \o JSToString(title))
                  ELSE title,
        gestureResponseDistance |-> [horizontal |-> 500]]

ScreenOptions(route) ==
    IF route.name = "Chapter" THEN ChapterOptions(route) ELSE HomeOptions

NoOptions == [title |-> JSUndefined]

\* a navigator created anew by every render
NavigatorRoutesRemounted(newView, oldRoutes) ==
    IF newView.kind = "AppLoading" THEN <<>>
    ELSE <<[name |-> newView.initialRouteName]>>

\* the navigator is mounted with its initial route when the tree that holds
\* it is first returned, and keeps its stack across later renders
NavigatorRoutes(newView, oldRoutes) ==
    IF newView.kind = "AppLoading" THEN <<>>
    ELSE IF oldRoutes = <<>> THEN <<[name |-> newView.initialRouteName]>>
    ELSE oldRoutes

FocusedOptions(rs) ==
    IF rs = <<>> THEN NoOptions ELSE ScreenOptions(rs[Len(rs)])

\* one call of App() with the flag at lc, and its commit
Rendered(lc) ==
    /\ view' = RenderApp(lc)
    /\ routes' = NavigatorRoutes(RenderApp(lc), routes)
    /\ options' = FocusedOptions(NavigatorRoutes(RenderApp(lc), routes))
    /\ effectPending' = (effectPending \/ EffectDeps(lc) # lastDeps)
    /\ lastDeps' = EffectDeps(lc)

Init ==
    /\ loadingCache = InitialLoadingCache
    /\ view = RenderApp(InitialLoadingCache)
    /\ effectPending = TRUE
    /\ lastDeps = EffectDeps(InitialLoadingCache)
    /\ promises = <<>>
    /\ reacted = {}
    /\ setterCalls = 0
    /\ rerenders = 0
    /\ routes = NavigatorRoutes(RenderApp(InitialLoadingCache), <<>>)
    /\ options = FocusedOptions(routes)

\* start(): the effect runs and calls persistCache
RunEffect ==
    /\ effectPending
    /\ effectPending' = FALSE
    /\ promises' = Append(promises, "pending")
    /\ UNCHANGED <<loadingCache, view, lastDeps, reacted, setterCalls,
                   rerenders, nav>>

\* the storage layer settles the promise
Settle(i, outcome) ==
    /\ promises[i] = "pending"
    /\ promises' = [promises EXCEPT ![i] = outcome]
    /\ UNCHANGED <<gate, reacted, setterCalls, rerenders, nav>>

\* () => setLoadingCache(false).  The call is made from a promise reaction,
\* outside any batched event handler, so the state update and the re-render
\* of App it causes are one step: the flag and the rendered tree never
\* disagree.
OnRehydrationComplete ==
    /\ loadingCache' = CompletedLoadingCache(loadingCache)
    /\ setterCalls' = setterCalls + 1
    /\ Rendered(CompletedLoadingCache(loadingCache))

\* reaction job of a fulfilled promise
OnFulfilled(i) ==
    /\ i \notin reacted
    /\ ThenReacts(promises[i])
    /\ reacted' = reacted \cup {i}
    /\ OnRehydrationComplete
    /\ UNCHANGED <<promises, rerenders>>

\* reaction job of a promise the callback is no reaction to: the rejection
\* passes to the promise .then returned, which nobody handles
OnRejected(i) ==
    /\ i \notin reacted
    /\ promises[i] # "pending"
    /\ ~ThenReacts(promises[i])
    /\ reacted' = reacted \cup {i}
    /\ UNCHANGED <<gate, promises, setterCalls, rerenders, nav>>

\* the framework calls App() again
Render ==
    /\ rerenders < MaxRerenders
    /\ rerenders' = rerenders + 1
    /\ Rendered(loadingCache)
    /\ UNCHANGED <<loadingCache, promises, reacted, setterCalls>>

\* a Chapter route is activated with a chapter parameter
Navigate(chapter) ==
    /\ routes # <<>>
    /\ Len(routes) < MaxStack
    /\ routes' = Append(routes, [name |-> "Chapter",
                                 params |-> [chapter |-> chapter]])
    /\ options' = FocusedOptions(routes')
    /\ UNCHANGED <<gate, promises, reacted, setterCalls, rerenders>>

\* the focused route is popped
GoBack ==
    /\ Len(routes) > 1
    /\ routes' = SubSeq(routes, 1, Len(routes) - 1)
    /\ options' = FocusedOptions(routes')
    /\ UNCHANGED <<gate, promises, reacted, setterCalls, rerenders>>

Next ==
    \/ RunEffect
    \/ \E i \in DOMAIN promises : Settle(i, "fulfilled")
    \/ \E i \in DOMAIN promises : Settle(i, "rejected")
    \/ \E i \in DOMAIN promises : OnFulfilled(i)
    \/ \E i \in DOMAIN promises : OnRejected(i)
    \/ Render
    \/ \E chapter \in Chapters : Navigate(chapter)
    \/ GoBack

Spec == Init /\ [][Next]_vars

\* the event loop runs every queued reaction job and every requested render
FairSpec ==
    /\ Spec
    /\ WF_vars(\E i \in DOMAIN promises : OnFulfilled(i))
    /\ WF_vars(Render)

\* the completion callback fired again by the storage layer, after the one
\* firing a promise gives it
FireAgain ==
    /\ Len(promises) >= 1
    /\ setterCalls >= 1
    /\ setterCalls < MaxFirings
    /\ OnRehydrationComplete
    /\ UNCHANGED <<promises, reacted, rerenders>>

NextFire == Next \/ FireAgain

SpecFire == Init /\ [][NextFire]_vars

-----------------------------------------------------------------------------
Placeholder == view.kind = "AppLoading"
NavigationTree == view.kind = "ApolloProvider"
Fulfilled == \E i \in DOMAIN promises : promises[i] = "fulfilled"
TopRoute == routes[Len(routes)]

\* C1: when rehydration finishes with a failure the gate opens as on success:
\* once the reaction to a settled promise has run, whatever the outcome, the
\* flag is Ready and the navigation tree is rendered.
C1_FailureOpensGate ==
    \A i \in reacted : ~loadingCache /\ NavigationTree

\* C2: the flag is Pending from the start, in every state before the mount
\* effect has issued persistCache, and in every state where it is Pending
\* the render output is the loading placeholder and no navigator is mounted.
C2_PendingShowsPlaceholder ==
    /\ promises = <<>> => loadingCache
    /\ loadingCache => (view = [kind |-> "AppLoading"] /\ routes = <<>>)

C2_Witness ==
    loadingCache /\ Placeholder /\ rerenders >= 1 /\ Len(promises) = 1

\* C3: the flag changes only from Pending to Ready; once Ready, it is Ready
\* in the next state, whatever event happens (mount, completion, render).
C3_NeverBackToPending ==
    [][(loadingCache' # loadingCache) => (loadingCache /\ ~loadingCache')]_vars

C3_Witness ==
    ~loadingCache /\ setterCalls >= 2 /\ rerenders >= 1

\* C4: at most one persistCache call is ever issued, exactly one once the
\* mount effect has run, and never two outstanding, re-renders included.
C4_OneRehydration ==
    /\ Len(promises) <= 1
    /\ (~effectPending => Len(promises) = 1)
    /\ Cardinality({i \in DOMAIN promises : promises[i] = "pending"}) <= 1

C4_Witness ==
    ~loadingCache /\ rerenders >= 1 /\ Len(promises) = 1 /\ ~effectPending

\* C5: while the rehydration call has not resolved, the flag is Pending, the
\* placeholder is what is rendered and the callback has not been called.
C5_StalledStaysPending ==
    (\A i \in DOMAIN promises : promises[i] = "pending")
        => (loadingCache /\ Placeholder /\ setterCalls = 0)

C5_Witness ==
    /\ Len(promises) = 1
    /\ promises[1] = "pending"
    /\ rerenders >= 2
    /\ loadingCache
    /\ Placeholder

\* C6: the title of an activated Chapter route is "Chapter {number}: {title}"
\* when number is truthy and the title itself when number is null, undefined,
\* 0 or empty; {3, "Queries"} gives "Chapter 3: Queries" and
\* {null, "Introduction"} gives "Introduction".
C6_ChapterTitle ==
    (routes # <<>> /\ TopRoute.name = "Chapter") =>
        LET c == TopRoute.params.chapter
            falsy == c.number \in {JSNull, JSUndefined, JSNumber(0),
                                   JSString("")}
            shown == IF c.number.t = "number" THEN ToString(c.number.n)
                     ELSE c.number.s
        IN /\ falsy => options.title = c.title
           /\ ~falsy => options.title =
                  JSString("Chapter " \o shown \o ": " \o c.title.s)
           /\ c = [number |-> JSNumber(3), title |-> JSString("Queries")]
                  => options.title = JSString("Chapter 3: Queries")
           /\ c = [number |-> JSNull, title |-> JSString("Introduction")]
                  => options.title = JSString("Introduction")

C6_Witness ==
    /\ Len(routes) = 3
    /\ routes[2].params.chapter.number = JSNumber(0)
    /\ TopRoute.params.chapter =
           [number |-> JSNumber(3), title |-> JSString("Queries")]
    /\ options.title = JSString("Chapter 3: Queries")

\* C7: in every state where the flag is Ready the render output is the
\* navigation tree, its screens are exactly Home and Chapter, and the
\* navigator's initial route is Home.
C7_ReadyShowsNavigation ==
    ~loadingCache =>
        /\ NavigationTree
        /\ view.screens = {"Home", "Chapter"}
        /\ view.initialRouteName = "Home"
        /\ routes # <<>>
        /\ routes[1] = [name |-> "Home"]

C7_Witness ==
    ~loadingCache /\ NavigationTree /\ Len(routes) = 1 /\ rerenders = 0

\* C8: once the rehydration promise is fulfilled, the flag eventually is
\* Ready with the navigation tree rendered, and the setter has been called
\* exactly once for each fulfilled promise whose reaction has run.
C8_ResolutionOpensGate ==
    /\ Fulfilled ~> (~loadingCache /\ NavigationTree)
    /\ [](setterCalls =
             Cardinality({i \in reacted : promises[i] = "fulfilled"}))

C8_Witness ==
    ~loadingCache /\ NavigationTree /\ setterCalls = 1 /\ reacted = {1}

\* C9: the flag changes only in a step that runs the completion callback
\* (a setLoadingCache call made by a promise reaction); every other step
\* leaves it alone, and it is Ready only if a rehydration was started and
\* its promise was fulfilled.
C9_OnlyCallbackWrites ==
    /\ [][(loadingCache' # loadingCache) =>
             (setterCalls' = setterCalls + 1 /\ reacted' # reacted)]_vars
    /\ [](~loadingCache => \E i \in reacted : promises[i] = "fulfilled")

C9_Witness ==
    /\ ~loadingCache
    /\ reacted = {1}
    /\ Len(routes) >= 2
    /\ rerenders >= 1

\* C10: firing the completion callback always ends in Ready, and firing it
\* in state Ready changes neither the flag, the view nor the navigator.
C10_Idempotent ==
    [][(setterCalls' = setterCalls + 1) =>
          /\ ~loadingCache'
          /\ (~loadingCache => UNCHANGED <<loadingCache, view, routes,
                                           options>>)]_vars

C10_Witness ==
    ~loadingCache /\ setterCalls = MaxFirings /\ Len(routes) >= 2

====
